---- MODULE Spec2Model ----
(***************************************************************************)
(* Model of scripts/cxxrtl/sim.cpp: the fault-injection harness that       *)
(* drives the generated memory-controller circuit, flips bits of its       *)
(* memory, mirrors the flips in flips_array and classifies every SRAM read *)
(* by the number of flipped bits of the addressed cell.                    *)
(*                                                                         *)
(* The circuit (test.h, generated) is the environment: the values of its   *)
(* output ports are inputs of the actions that read them, and its memory   *)
(* changes only when it is stepped over a rising clock edge.               *)
(***************************************************************************)
EXTENDS Integers, Sequences, FiniteSets, TLC

\* ---- sizes ------------------------------------------------------------
\* depth and word width of top.memory_p_mem (sim.cpp:16-17)
num_memory_cells == 2
num_memory_bits == 2
\* bounds of the model: largest total_cycles, largest per-cycle flip count
MaxCycles == 2
MaxFlips == 2
\* largest lambda of the model; only lambda = 0 / lambda > 0 matters
MaxLambda == 1

Cells == 0 .. (num_memory_cells - 1)
Bits == 0 .. (num_memory_bits - 1)
Words == 0 .. (2 ^ num_memory_bits - 1)
Buckets == 0 .. num_memory_bits
\* stand-in for SIZE_MAX: the largest index a distribution over
\* 0 .. (size_t) -1 draws in the model
OobMax == 1

VARIABLES
    mem_depth,          \* num_memory_cells as the circuit reports it
    mem_bits,           \* num_memory_bits as the circuit reports it
    pc,                 \* position in main
    argc,               \* argument count of the invocation
    total_cycles,       \* argv[1]
    lambda,             \* argv[2]; 0 or positive
    clk_cycle,          \* loop counter
    flips,              \* flips still to apply in this cycle
    mem,                \* top.memory_p_mem.data
    p_clk,              \* top.p_clk
    flips_array,        \* the shadow of injected flips
    req_valid_cycles, req_fire_cycles, rsp_ready_cycles, rsp_fire_cycles,
    errors_injected,
    read_with_errors,   \* histogram, num_memory_bits + 1 buckets
    sram_clk_en, sram_write_en, sram_addr,   \* locals sampled per cycle
    exit_status,        \* -1 while running
    report,             \* lines printed, <<>> before the report
    \* ---- history variables (not in the program) ----
    steps,              \* number of top.step() calls so far
    ideal,              \* memory contents had no fault been injected
    flipcnt,            \* per (cell, bit): flips since the last clear
    cleared_pop,        \* per cell: popcount wiped by its last clear, -1 once flipped again
    snap,               \* the most recent flip, until its cell is cleared
    drawn_total,        \* sum of the flip counts drawn so far
    read_cycles         \* cycles observed as reads so far

prog == <<mem_depth, mem_bits, pc, argc, total_cycles, lambda, clk_cycle, flips, mem, p_clk,
          flips_array, req_valid_cycles, req_fire_cycles, rsp_ready_cycles,
          rsp_fire_cycles, errors_injected, read_with_errors, sram_clk_en,
          sram_write_en, sram_addr, exit_status, report>>
hist == <<steps, ideal, flipcnt, cleared_pop, snap, drawn_total, read_cycles>>
vars == <<prog, hist>>

\* the words the circuit writes in the model: all bits clear, all bits set
WriteData == {0, 2 ^ mem_bits - 1}

\* index ranges of flips_array / the memory, and of read_with_errors
ArrayCells == 0 .. (mem_depth - 1)
ArrayBits == 0 .. (mem_bits - 1)
ArrayBuckets == 0 .. mem_bits

\* variant: the upper end of a distribution is the count, not count - 1
UniformRangeInclusive(n) == 0 .. n

\* uniform_int_distribution<size_t>(0, n - 1): n - 1 wraps for n = 0
UniformRange(n) == IF n = 0 THEN 0 .. OobMax ELSE 0 .. (n - 1)

\* values of top.p_sram____addr: the port addresses the memory's cells
AddrRange == IF mem_depth = 0 THEN {0} ELSE 0 .. (mem_depth - 1)

\* ---- bit arithmetic ---------------------------------------------------
\* value.bit(i)
BitOf(w, b) == (w \div (2 ^ b)) % 2

\* 1ull << bit
Shl1(b) == 2 ^ b

\* a ^ b on unsigned words
RECURSIVE XorW(_, _)
XorW(a, b) ==
    IF a = 0 /\ b = 0 THEN 0
    ELSE (((a % 2) + (b % 2)) % 2) + 2 * XorW(a \div 2, b \div 2)

\* value.set_bit(i, v)
SetBit(w, b, v) ==
    IF v THEN (IF BitOf(w, b) = 1 THEN w ELSE w + 2 ^ b)
    ELSE (IF BitOf(w, b) = 1 THEN w - 2 ^ b ELSE w)

\* std::__popcount
RECURSIVE Popcount(_)
Popcount(w) == IF w = 0 THEN 0 ELSE (w % 2) + Popcount(w \div 2)

\* variant: the flip sets the shadow bit instead of toggling it
ShadowFlipSet(fa, cell, bit) == [fa EXCEPT ![cell] = SetBit(@, bit, TRUE)]

\* variant: a flip that hits a set shadow bit wipes the whole entry
ShadowFlipWipe(fa, cell, bit) ==
    [fa EXCEPT ![cell] = IF BitOf(@, bit) = 1 THEN 0 ELSE SetBit(@, bit, TRUE)]

\* flips_array[cell] ^= (1ull << bit)
ShadowFlip(fa, cell, bit) == [fa EXCEPT ![cell] = XorW(@, Shl1(bit))]

\* variant: the memory bit is set instead of inverted
MemFlipSet(m, cell, bit) == [m EXCEPT ![cell] = SetBit(@, bit, TRUE)]

\* was = data[cell].bit(bit); data[cell].set_bit(bit, !was)
MemFlip(m, cell, bit) ==
    [m EXCEPT ![cell] = SetBit(@, bit, ~(BitOf(@, bit) = 1))]

\* variant: the clear wipes the whole shadow
ShadowClearAll(fa, addr) == [c \in DOMAIN fa |-> 0]

\* variant: the clear hits the neighbouring entry
ShadowClearOther(fa, addr) == [fa EXCEPT ![(addr + 1) % num_memory_cells] = 0]

\* flips_array[sram_addr] = 0
ShadowClear(fa, addr) == [fa EXCEPT ![addr] = 0]

\* variant: the distribution ignores the mean it was given
NumFlipsAnyMean(l) == 0 .. MaxFlips

\* values num_flips(generator) can return for a given mean
NumFlips(l) == IF l = 0 THEN {0} ELSE 0 .. MaxFlips

\* the circuit's memory after a rising clock edge: a write cycle overwrites
\* the whole addressed word, nothing else changes the memory
MemAfterEdge(m, en, we, addr, data) ==
    IF en /\ we /\ addr \in DOMAIN m THEN [m EXCEPT ![addr] = data] ELSE m

NoSnap == [valid |-> FALSE, cell |-> 0, bit |-> 0, sh |-> 0, mb |-> 0, err |-> 0]

\* ---- the program ------------------------------------------------------
\* the state at the entry of main, for a circuit of the reported sizes
InitMain ==
    /\ pc = "start"
    /\ argc \in 1 .. 3
    /\ total_cycles \in 0 .. MaxCycles
    /\ lambda \in 0 .. MaxLambda
    /\ clk_cycle = 0
    /\ flips = 0
    /\ mem = [c \in ArrayCells |-> 0]
    /\ p_clk = FALSE
    /\ flips_array = [c \in ArrayCells |-> 0]
    /\ req_valid_cycles = 0
    /\ req_fire_cycles = 0
    /\ rsp_ready_cycles = 0
    /\ rsp_fire_cycles = 0
    /\ errors_injected = 0
    /\ read_with_errors = [i \in ArrayBuckets |-> 0]
    /\ sram_clk_en = FALSE
    /\ sram_write_en = FALSE
    /\ sram_addr = 0
    /\ exit_status = -1
    /\ report = <<>>
    /\ steps = 0
    /\ ideal = [c \in ArrayCells |-> 0]
    /\ flipcnt = [c \in ArrayCells |-> [b \in ArrayBits |-> 0]]
    /\ cleared_pop = [c \in ArrayCells |-> -1]
    /\ snap = NoSnap
    /\ drawn_total = 0
    /\ read_cycles = 0

\* a circuit whose memory has num_memory_cells words of num_memory_bits bits
Init ==
    /\ mem_depth = num_memory_cells
    /\ mem_bits = num_memory_bits
    /\ InitMain

\* any circuit, also one that reports no cells or no bits
InitAnyConfig ==
    /\ mem_depth \in {0, num_memory_cells}
    /\ mem_bits \in {0, num_memory_bits}
    /\ InitMain

\* variant: the argument check is off by one
TooFewArgsBelow2(a) == a < 2

\* argc < 3
TooFewArgs(a) == a < 3

\* variant: the loop runs once more than total_cycles
LoopTestInclusive(c, n) == c <= n

\* variant: the loop stops one cycle early
LoopTestShort(c, n) == c + 1 < n

\* clk_cycle < total_cycles
LoopTest(c, n) == c < n

\* if (argc < 3) return 1;
UsageError ==
    /\ pc = "start"
    /\ TooFewArgs(argc)
    /\ pc' = "done"
    /\ exit_status' = 1
    /\ UNCHANGED <<mem_depth, mem_bits, argc, total_cycles, lambda, clk_cycle, flips, mem, p_clk,
                   flips_array, req_valid_cycles, req_fire_cycles,
                   rsp_ready_cycles, rsp_fire_cycles, errors_injected,
                   read_with_errors, sram_clk_en, sram_write_en, sram_addr,
                   report>>
    /\ UNCHANGED hist

\* arguments, generator, flips_array zeroed, initial half-cycle, counters
Setup ==
    /\ pc = "start"
    /\ ~TooFewArgs(argc)
    /\ flips_array' = [c \in ArrayCells |-> 0]
    /\ p_clk' = FALSE
    /\ steps' = steps + 1
    /\ req_valid_cycles' = 0
    /\ req_fire_cycles' = 0
    /\ rsp_ready_cycles' = 0
    /\ rsp_fire_cycles' = 0
    /\ errors_injected' = 0
    /\ read_with_errors' = [i \in ArrayBuckets |-> 0]
    /\ clk_cycle' = 0
    /\ pc' = "loop"
    /\ UNCHANGED <<mem_depth, mem_bits, argc, total_cycles, lambda, flips, mem, sram_clk_en,
                   sram_write_en, sram_addr, exit_status, report>>
    /\ UNCHANGED <<ideal, flipcnt, cleared_pop, snap, drawn_total, read_cycles>>

\* loop test passes; size_t flips = num_flips(generator); first while test
DrawFlips ==
    /\ pc = "loop"
    /\ LoopTest(clk_cycle, total_cycles)
    /\ \E n \in NumFlips(lambda) :
        /\ flips' = n
        /\ drawn_total' = drawn_total + n
        /\ pc' = IF n = 0 THEN "handshake" ELSE "flip"
    /\ UNCHANGED <<mem_depth, mem_bits, argc, total_cycles, lambda, clk_cycle, mem, p_clk,
                   flips_array, req_valid_cycles, req_fire_cycles,
                   rsp_ready_cycles, rsp_fire_cycles, errors_injected,
                   read_with_errors, sram_clk_en, sram_write_en, sram_addr,
                   exit_status, report>>
    /\ UNCHANGED <<steps, ideal, flipcnt, cleared_pop, snap, read_cycles>>

\* variant: the increment is missing
CountFlipNone(e) == e

\* errors_injected++
CountFlip(e) == e + 1

\* one iteration of while (flips--), and the test that follows it. An index
\* outside the arrays is an out-of-bounds access: the process dies, or the
\* access lands outside the arrays and the loop goes on
Flip ==
    /\ pc = "flip"
    /\ flips > 0
    /\ \E cell \in UniformRange(mem_depth), bit \in UniformRange(mem_bits) :
        IF cell \in ArrayCells /\ bit \in ArrayBits
        THEN
            /\ flips_array' = ShadowFlip(flips_array, cell, bit)
            /\ mem' = MemFlip(mem, cell, bit)
            /\ flipcnt' = [flipcnt EXCEPT ![cell][bit] = @ + 1]
            /\ cleared_pop' = [cleared_pop EXCEPT ![cell] = -1]
            /\ snap' = [valid |-> TRUE, cell |-> cell, bit |-> bit,
                        sh |-> BitOf(flips_array[cell], bit),
                        mb |-> BitOf(mem[cell], bit),
                        err |-> errors_injected]
            /\ errors_injected' = CountFlip(errors_injected)
            /\ flips' = flips - 1
            /\ pc' = IF flips - 1 = 0 THEN "handshake" ELSE "flip"
            /\ exit_status' = exit_status
        ELSE
            /\ UNCHANGED <<flips_array, mem, flipcnt, cleared_pop, snap>>
            /\ \E dies \in BOOLEAN :
                IF dies
                THEN /\ pc' = "crashed"
                     /\ exit_status' = 139
                     /\ UNCHANGED <<errors_injected, flips>>
                ELSE /\ errors_injected' = CountFlip(errors_injected)
                     /\ flips' = flips - 1
                     /\ pc' = IF flips - 1 = 0 THEN "handshake" ELSE "flip"
                     /\ exit_status' = exit_status
    /\ UNCHANGED <<mem_depth, mem_bits, argc, total_cycles, lambda, clk_cycle,
                   p_clk, req_valid_cycles, req_fire_cycles, rsp_ready_cycles,
                   rsp_fire_cycles, read_with_errors, sram_clk_en,
                   sram_write_en, sram_addr, report>>
    /\ UNCHANGED <<steps, ideal, drawn_total, read_cycles>>

\* variant: a response fires whenever it is valid
RspFireOnValid(n, rv, rr) == IF rv THEN n + 1 ELSE n

\* the four handshake counters, from the ports' values rv, rr, qv, qr
RspReadyNext(n, rr) == IF rr THEN n + 1 ELSE n
RspFireNext(n, rv, rr) == IF rv /\ rr THEN n + 1 ELSE n
ReqValidNext(n, qv) == IF qv THEN n + 1 ELSE n
ReqFireNext(n, qv, qr) == IF qv THEN (IF qr THEN n + 1 ELSE n) ELSE n

\* variant: the circuit is stepped once more before the ports are read
ObserveHandshakesAfterStep ==
    /\ pc = "handshake"
    /\ \E rsp_valid \in BOOLEAN, rsp_ready \in BOOLEAN,
          req_valid \in BOOLEAN, req_ready \in BOOLEAN :
        /\ rsp_ready_cycles' = RspReadyNext(rsp_ready_cycles, rsp_ready)
        /\ rsp_fire_cycles' = RspFireNext(rsp_fire_cycles, rsp_valid, rsp_ready)
        /\ req_valid_cycles' = ReqValidNext(req_valid_cycles, req_valid)
        /\ req_fire_cycles' = ReqFireNext(req_fire_cycles, req_valid, req_ready)
    /\ pc' = "intent"
    /\ UNCHANGED <<mem_depth, mem_bits, argc, total_cycles, lambda, clk_cycle, flips, mem, p_clk,
                   flips_array, errors_injected, read_with_errors,
                   sram_clk_en, sram_write_en, sram_addr, exit_status, report>>
    /\ steps' = steps + 1
    /\ UNCHANGED <<ideal, flipcnt, cleared_pop, snap, drawn_total, read_cycles>>

\* the ports are read with no step since the injection
ObserveHandshakes ==
    /\ pc = "handshake"
    /\ \E rsp_valid \in BOOLEAN, rsp_ready \in BOOLEAN,
          req_valid \in BOOLEAN, req_ready \in BOOLEAN :
        /\ rsp_ready_cycles' = RspReadyNext(rsp_ready_cycles, rsp_ready)
        /\ rsp_fire_cycles' = RspFireNext(rsp_fire_cycles, rsp_valid, rsp_ready)
        /\ req_valid_cycles' = ReqValidNext(req_valid_cycles, req_valid)
        /\ req_fire_cycles' = ReqFireNext(req_fire_cycles, req_valid, req_ready)
    /\ pc' = "intent"
    /\ UNCHANGED <<mem_depth, mem_bits, argc, total_cycles, lambda, clk_cycle, flips, mem, p_clk,
                   flips_array, errors_injected, read_with_errors,
                   sram_clk_en, sram_write_en, sram_addr, exit_status, report>>
    /\ UNCHANGED hist

\* variant: the bucket is indexed by the flip mask itself
HistNextByMask(h, fa, en, we, addr) ==
    IF en /\ ~we THEN [h EXCEPT ![fa[addr]] = @ + 1] ELSE h

\* variant: every clock-enabled cycle is classified, reads and writes
HistNextOnEnable(h, fa, en, we, addr) ==
    IF en THEN [h EXCEPT ![Popcount(fa[addr])] = @ + 1] ELSE h

\* read classification: read_with_errors[popcnt]++
HistNext(h, fa, en, we, addr) ==
    IF en /\ ~we THEN [h EXCEPT ![Popcount(fa[addr])] = @ + 1] ELSE h

\* variant: a write cycle leaves the shadow alone
ShadowNextNoClear(fa, en, we, addr) == fa

\* variant: the shadow is cleared on read cycles instead of write cycles
ShadowNextOnRead(fa, en, we, addr) ==
    IF en /\ ~we THEN [fa EXCEPT ![addr] = 0] ELSE fa

\* write observation: flips_array[sram_addr] = 0
ShadowNext(fa, en, we, addr) ==
    IF en /\ we THEN ShadowClear(fa, addr) ELSE fa

\* an address outside flips_array is an out-of-bounds access: the process
\* dies, or a read counts some bucket or none and a write clears nothing
ObserveIntent ==
    /\ pc = "intent"
    /\ \E en \in BOOLEAN, we \in BOOLEAN, addr \in AddrRange :
        /\ sram_clk_en' = en
        /\ sram_write_en' = we
        /\ sram_addr' = addr
        /\ read_cycles' = IF en /\ ~we THEN read_cycles + 1 ELSE read_cycles
        /\ IF addr \in ArrayCells \/ ~en
           THEN
            /\ read_with_errors' = HistNext(read_with_errors, flips_array, en, we, addr)
            /\ flips_array' = ShadowNext(flips_array, en, we, addr)
            /\ flipcnt' = IF en /\ we
                          THEN [flipcnt EXCEPT ![addr] = [b \in ArrayBits |-> 0]]
                          ELSE flipcnt
            /\ cleared_pop' = IF en /\ we
                              THEN [cleared_pop EXCEPT ![addr] = Popcount(flips_array[addr])]
                              ELSE cleared_pop
            /\ snap' = IF en /\ we /\ snap.valid /\ snap.cell = addr
                       THEN NoSnap ELSE snap
            /\ pc' = "clk"
            /\ exit_status' = exit_status
           ELSE
            /\ UNCHANGED <<flips_array, flipcnt, cleared_pop, snap>>
            /\ \E dies \in BOOLEAN :
                IF dies
                THEN /\ pc' = "crashed"
                     /\ exit_status' = 139
                     /\ UNCHANGED read_with_errors
                ELSE /\ pc' = "clk"
                     /\ exit_status' = exit_status
                     /\ read_with_errors' \in
                            {read_with_errors} \cup
                            (IF we THEN {}
                             ELSE { [read_with_errors EXCEPT ![i] = @ + 1] :
                                        i \in ArrayBuckets })
    /\ UNCHANGED <<mem_depth, mem_bits, argc, total_cycles, lambda, clk_cycle,
                   flips, mem, p_clk, req_valid_cycles, req_fire_cycles,
                   rsp_ready_cycles, rsp_fire_cycles, errors_injected, report>>
    /\ UNCHANGED <<steps, ideal, drawn_total>>

\* clk(), first half: clock high, step; the circuit sees the rising edge
ClkHigh ==
    /\ pc = "clk"
    /\ \E data \in WriteData :
        /\ mem' = MemAfterEdge(mem, sram_clk_en, sram_write_en, sram_addr, data)
        /\ ideal' = MemAfterEdge(ideal, sram_clk_en, sram_write_en, sram_addr, data)
    /\ p_clk' = TRUE
    /\ steps' = steps + 1
    /\ pc' = "clk_low"
    /\ UNCHANGED <<mem_depth, mem_bits, argc, total_cycles, lambda, clk_cycle, flips, flips_array,
                   req_valid_cycles, req_fire_cycles, rsp_ready_cycles,
                   rsp_fire_cycles, errors_injected, read_with_errors,
                   sram_clk_en, sram_write_en, sram_addr, exit_status, report>>
    /\ UNCHANGED <<flipcnt, cleared_pop, snap, drawn_total, read_cycles>>

\* variant: the clock is left high
ClkLowStaysHigh ==
    /\ pc = "clk_low"
    /\ p_clk' = TRUE
    /\ steps' = steps + 1
    /\ clk_cycle' = clk_cycle + 1
    /\ sram_clk_en' = FALSE
    /\ sram_write_en' = FALSE
    /\ sram_addr' = 0
    /\ pc' = "loop"
    /\ UNCHANGED <<mem_depth, mem_bits, argc, total_cycles, lambda, flips, mem, flips_array,
                   req_valid_cycles, req_fire_cycles, rsp_ready_cycles,
                   rsp_fire_cycles, errors_injected, read_with_errors,
                   exit_status, report>>
    /\ UNCHANGED <<ideal, flipcnt, cleared_pop, snap, drawn_total, read_cycles>>

\* clk(), second half: clock low, step; the loop body ends, ++clk_cycle
ClkLow ==
    /\ pc = "clk_low"
    /\ p_clk' = FALSE
    /\ steps' = steps + 1
    /\ clk_cycle' = clk_cycle + 1
    /\ sram_clk_en' = FALSE
    /\ sram_write_en' = FALSE
    /\ sram_addr' = 0
    /\ pc' = "loop"
    /\ UNCHANGED <<mem_depth, mem_bits, argc, total_cycles, lambda, flips, mem, flips_array,
                   req_valid_cycles, req_fire_cycles, rsp_ready_cycles,
                   rsp_fire_cycles, errors_injected, read_with_errors,
                   exit_status, report>>
    /\ UNCHANGED <<ideal, flipcnt, cleared_pop, snap, drawn_total, read_cycles>>

\* loop test fails; trailing half-cycle
Trailing ==
    /\ pc = "loop"
    /\ ~LoopTest(clk_cycle, total_cycles)
    /\ p_clk' = FALSE
    /\ steps' = steps + 1
    /\ pc' = "report"
    /\ UNCHANGED <<mem_depth, mem_bits, argc, total_cycles, lambda, clk_cycle, flips, mem,
                   flips_array, req_valid_cycles, req_fire_cycles,
                   rsp_ready_cycles, rsp_fire_cycles, errors_injected,
                   read_with_errors, sram_clk_en, sram_write_en, sram_addr,
                   exit_status, report>>
    /\ UNCHANGED <<ideal, flipcnt, cleared_pop, snap, drawn_total, read_cycles>>

\* values an out-of-bounds read of the stack returns in the model
StackJunk == {0, 1}

\* read_with_errors[i] as the report reads it: the array has
\* num_memory_bits + 1 elements, an index past its end reads whatever
\* follows it on the stack
ReportedBuckets ==
    { s \in [0 .. 4 -> (0 .. MaxCycles) \cup StackJunk] :
        \A i \in 0 .. 4 :
            IF i \in ArrayBuckets THEN s[i] = read_with_errors[i]
            ELSE s[i] \in StackJunk }

\* the printf lines, then main returns
Report ==
    /\ pc = "report"
    /\ \E s \in ReportedBuckets :
        report' = <<req_valid_cycles, req_fire_cycles, rsp_ready_cycles,
                    rsp_fire_cycles, errors_injected, s>>
    /\ exit_status' = 0
    /\ pc' = "done"
    /\ UNCHANGED <<mem_depth, mem_bits, argc, total_cycles, lambda, clk_cycle, flips, mem, p_clk,
                   flips_array, req_valid_cycles, req_fire_cycles,
                   rsp_ready_cycles, rsp_fire_cycles, errors_injected,
                   read_with_errors, sram_clk_en, sram_write_en, sram_addr>>
    /\ UNCHANGED hist

Next ==
    \/ UsageError
    \/ Setup
    \/ DrawFlips
    \/ Flip
    \/ ObserveHandshakes
    \/ ObserveIntent
    \/ ClkHigh
    \/ ClkLow
    \/ Trailing
    \/ Report

Spec == Init /\ [][Next]_vars

\* the same program on any circuit
SpecAnyConfig == InitAnyConfig /\ [][Next]_vars

\* the process is a single thread that keeps running until main returns
FairSpec == Spec /\ WF_vars(Next)

TypeOK ==
    /\ pc \in {"start", "loop", "flip", "handshake", "intent", "clk", "clk_low", "report", "done", "crashed"}
    /\ mem \in [Cells -> Words]
    /\ flips_array \in [Cells -> Words]
    /\ read_with_errors \in [Buckets -> 0 .. MaxCycles]

\* ---- properties ---------------------------------------------------------
\* the shadow bits of a word, as a set
SetBits(w) == { b \in Bits : BitOf(w, b) = 1 }

\* cell c is about to be overwritten: its shadow entry is already cleared,
\* the clock edge that writes it has not happened yet
WritePending(c) ==
    pc = "clk" /\ sram_clk_en /\ sram_write_en /\ sram_addr = c

\* the step that observes a write to cell c
ClearStep(c) ==
    pc = "intent" /\ sram_clk_en' /\ sram_write_en' /\ sram_addr' = c

\* the step that observes a read
ReadStep == pc = "intent" /\ pc' = "clk" /\ sram_clk_en' /\ ~sram_write_en'

\* C1: for every cell, memory word XOR shadow entry is the fault-free value
\* of the cell: at every cycle boundary for all cells, and inside a cycle
\* for every cell but the one whose overwrite is pending at the clock edge.
C1_MemXorShadowIsFaultFree ==
    \A c \in Cells :
        ~WritePending(c) =>
            \A b \in Bits :
                (BitOf(mem[c], b) # BitOf(ideal[c], b))
                    <=> (BitOf(flips_array[c], b) = 1)

\* a cycle boundary after a dirty cell was overwritten with a non-zero word
\* while another cell still carries a flip
C1_Witness ==
    /\ pc = "loop"
    /\ \E c \in Cells, d \in Cells :
        /\ cleared_pop[c] >= 1
        /\ ideal[c] # 0
        /\ flips_array[d] # 0

\* C2 as stated: a shadow bit is set iff the bit has been flipped since the
\* last clear of its cell (or since the start).
C2_SetIffFlipped ==
    \A c \in Cells, b \in Bits :
        (BitOf(flips_array[c], b) = 1) <=> (flipcnt[c][b] > 0)

\* C2 amended: a shadow bit is set iff the bit has been flipped an odd
\* number of times since the last clear of its cell (or since the start).
C2_SetIffFlippedOdd ==
    \A c \in Cells, b \in Bits :
        (BitOf(flips_array[c], b) = 1) <=> (flipcnt[c][b] % 2 = 1)

\* a bit flipped twice since the last clear of its cell, a bit flipped
\* once, and a cell that was cleared while dirty
C2_Witness ==
    /\ \E c \in Cells, b \in Bits : flipcnt[c][b] = 2
    /\ \E c \in Cells, b \in Bits : flipcnt[c][b] = 1
    /\ \E d \in Cells : cleared_pop[d] >= 1

\* C3 as stated: outside the clears of a cell, no step lowers the popcount
\* of its shadow entry.
C3_PopcountMonotone ==
    [][\A c \in Cells :
        ~ClearStep(c) =>
            Cardinality(SetBits(flips_array'[c])) >= Cardinality(SetBits(flips_array[c]))]_vars

\* C3 amended: outside the clears of a cell, only injections change the
\* popcount of its shadow entry, and only of the cell they hit: by +1 when
\* the drawn bit was clear, by -1 when it was already set.
C3_PopcountStep ==
    [][\A c \in Cells :
        ~ClearStep(c) =>
            LET before == Cardinality(SetBits(flips_array[c]))
                after == Cardinality(SetBits(flips_array'[c]))
                hit == { b \in Bits : flipcnt'[c][b] # flipcnt[c][b] }
            IN  /\ (hit = {}) => after = before
                /\ \A b \in hit :
                    /\ pc = "flip"
                    /\ BitOf(flips_array[c], b) = 0 => after = before + 1
                    /\ BitOf(flips_array[c], b) = 1 => after = before - 1]_vars

\* the most recent flip hit a shadow bit that was set, in a cell with
\* another bit set
C3_Witness ==
    /\ snap.valid
    /\ snap.sh = 1
    /\ flips_array[snap.cell] # 0

\* C4: a flip of the (cell, bit) of the previous flip, with no clear of the
\* cell in between, brings the shadow bit and the memory bit back to their
\* values before the previous flip, and errors_injected is 2 larger.
C4_DoubleFlipCancels ==
    [][(/\ pc = "flip"
        /\ snap.valid
        /\ snap'.valid
        /\ snap'.cell = snap.cell
        /\ snap'.bit = snap.bit)
       => /\ BitOf(flips_array'[snap.cell], snap.bit) = snap.sh
          /\ BitOf(mem'[snap.cell], snap.bit) = snap.mb
          /\ errors_injected' = snap.err + 2]_vars

\* exactly two flips were applied, both to the same bit, in different cycles
C4_Witness ==
    /\ snap.valid
    /\ errors_injected = 2
    /\ flipcnt[snap.cell][snap.bit] = 2
    /\ clk_cycle = 1

\* C5: after the memory-intent observation of a write cycle and before the
\* clock advances, the shadow entry of the sampled address is zero.
C5_WriteClearsShadow ==
    (pc = "clk" /\ sram_clk_en /\ sram_write_en)
        => /\ flips_array[sram_addr] = 0
           /\ SetBits(flips_array[sram_addr]) = {}

\* a write observed in the first cycle on a cell that got both its bits
\* flipped in that same cycle
C5_Witness ==
    /\ pc = "clk"
    /\ sram_clk_en
    /\ sram_write_en
    /\ clk_cycle = 0
    /\ cleared_pop[sram_addr] = 2
    /\ mem[sram_addr] # ideal[sram_addr]

\* cell a has exactly one bit flipped, once, since its last clear
OnceFlipped(a) ==
    \E b \in Bits :
        /\ flipcnt[a][b] = 1
        /\ \A b2 \in Bits \ {b} : flipcnt[a][b2] = 0

\* C6: a read cycle increments exactly one histogram bucket, by 1, at the
\* popcount of the shadow entry of the sampled address as it is after this
\* cycle's injections; a cell with one bit flipped once lands in bucket 1.
C6_ReadClassifiedByPopcount ==
    [][ReadStep =>
        LET k == Cardinality(SetBits(flips_array[sram_addr']))
        IN  /\ k \in Buckets
            /\ \A i \in Buckets :
                read_with_errors'[i] =
                    read_with_errors[i] + (IF i = k THEN 1 ELSE 0)
            /\ OnceFlipped(sram_addr') =>
                read_with_errors'[1] = read_with_errors[1] + 1]_vars

\* a read in the first cycle of the cell whose high bit was flipped once in
\* that same cycle has been counted in bucket 1
C6_Witness ==
    /\ pc = "clk"
    /\ clk_cycle = 0
    /\ sram_clk_en
    /\ ~sram_write_en
    /\ flipcnt[sram_addr] = [b \in Bits |-> IF b = num_memory_bits - 1 THEN 1 ELSE 0]
    /\ errors_injected = 1
    /\ read_with_errors[1] = 1

\* C7: a read of a cell that was cleared by a write, whatever its shadow
\* held, and not flipped since increments bucket 0 and no other bucket.
C7_ReadAfterWriteIsClean ==
    [][(ReadStep /\ cleared_pop[sram_addr'] >= 0) =>
        \A i \in Buckets :
            read_with_errors'[i] =
                read_with_errors[i] + (IF i = 0 THEN 1 ELSE 0)]_vars

\* a cell with 2 shadow bits set was written in the first cycle and read in
\* the second, with no flip of it in between
C7_Witness ==
    /\ pc = "clk"
    /\ clk_cycle = 1
    /\ sram_clk_en
    /\ ~sram_write_en
    /\ cleared_pop[sram_addr] = 2
    /\ read_with_errors[0] = 1

\* C8: errors_injected is the sum of the flip counts drawn so far, less the
\* flips of the current cycle still to be applied; the report prints that
\* sum; only an applied flip changes it, by exactly 1.
C8_ErrorsInjectedIsFlipsDrawn ==
    /\ [](/\ errors_injected = drawn_total - flips
          /\ pc # "flip" => errors_injected = drawn_total
          /\ report # <<>> => report[5] = drawn_total)
    /\ [][errors_injected' # errors_injected =>
            (pc = "flip" /\ errors_injected' = errors_injected + 1)]_vars

\* the report shows 4 injected errors although two of them cancelled
C8_Witness ==
    /\ pc = "done"
    /\ report # <<>>
    /\ report[5] = 4
    /\ \E c \in Cells, b \in Bits : flipcnt[c][b] = 2

\* C9: a channel never fires more often than its gating signal was seen.
C9_FireBoundedByGate ==
    /\ req_fire_cycles <= req_valid_cycles
    /\ rsp_fire_cycles <= rsp_ready_cycles

\* both channels fired, and both were also seen gated without firing
C9_Witness ==
    /\ req_fire_cycles = 1
    /\ req_valid_cycles = 2
    /\ rsp_fire_cycles = 1
    /\ rsp_ready_cycles = 2

\* C10: with lambda = 0 nothing is injected, the shadow stays all-zero and
\* every observed read is counted in bucket 0.
C10_LambdaZero ==
    lambda = 0 =>
        /\ errors_injected = 0
        /\ \A c \in Cells : flips_array[c] = 0
        /\ read_with_errors[0] = read_cycles
        /\ \A i \in Buckets \ {0} : read_with_errors[i] = 0

\* a finished run with lambda = 0 in which every cycle was a read
C10_Witness ==
    /\ lambda = 0
    /\ pc = "done"
    /\ report # <<>>
    /\ read_cycles = MaxCycles
    /\ clk_cycle = MaxCycles

\* the harness was invoked with both arguments
Invoked == ~(argc < 3)

\* the positions inside the loop body before the clock is raised
InCycle == pc \in {"flip", "handshake", "intent", "clk"}

RECURSIVE SumTo(_, _)
SumTo(h, n) == IF n < 0 THEN 0 ELSE h[n] + SumTo(h, n - 1)

\* C11: with total_cycles = 0 the loop body never runs, nothing is injected,
\* every counter and every histogram bucket is 0, also in the report, and
\* the exit status is 0.
C11_ZeroCycles ==
    (Invoked /\ total_cycles = 0) =>
        /\ pc \in {"start", "loop", "report", "done"}
        /\ clk_cycle = 0
        /\ req_valid_cycles = 0 /\ req_fire_cycles = 0
        /\ rsp_ready_cycles = 0 /\ rsp_fire_cycles = 0
        /\ errors_injected = 0
        /\ \A i \in Buckets : read_with_errors[i] = 0
        /\ \A c \in Cells : mem[c] = 0 /\ flips_array[c] = 0
        /\ pc = "done" =>
            /\ exit_status = 0
            /\ \A k \in 1 .. 5 : report[k] = 0
            /\ \A i \in Buckets : i <= 4 => report[6][i] = 0

\* a finished run of zero cycles
C11_Witness ==
    /\ Invoked
    /\ total_cycles = 0
    /\ pc = "done"
    /\ exit_status = 0
    /\ Len(report) = 6

\* C12: with fewer than two arguments the process ends with status 1 and
\* does nothing else: no step, no injection, no counter update, no report.
C12_UsageError ==
    (argc < 3) =>
        /\ pc \in {"start", "done"}
        /\ pc = "done" => exit_status = 1
        /\ steps = 0
        /\ report = <<>>
        /\ errors_injected = 0
        /\ req_valid_cycles = 0 /\ req_fire_cycles = 0
        /\ rsp_ready_cycles = 0 /\ rsp_fire_cycles = 0
        /\ \A c \in Cells : mem[c] = 0

\* the process has ended after being started with the program name only
C12_Witness ==
    /\ argc = 1
    /\ pc = "done"
    /\ exit_status = 1

\* C13: the loop is left only after total_cycles iterations, then come the
\* trailing half-cycle and the report, and the run ends; a read of a cell
\* with more than one flipped bit does not end the loop.
C13_RunsAllCycles ==
    /\ [](/\ pc \in {"report", "done"} /\ Invoked => clk_cycle = total_cycles
          /\ pc = "done" /\ Invoked => Len(report) = 6 /\ exit_status = 0
          /\ clk_cycle <= total_cycles)
    /\ [][/\ pc' = "report" => pc = "loop"
          /\ (pc' = "done" /\ Invoked) => pc = "report"
          /\ ReadStep => pc' = "clk"]_vars
    /\ <>(pc = "done")

\* a finished run of MaxCycles cycles whose first read saw two flipped bits
C13_Witness ==
    /\ pc = "done"
    /\ total_cycles = MaxCycles
    /\ clk_cycle = MaxCycles
    /\ read_with_errors[2] >= 1
    /\ Len(report) = 6

\* C14: a circuit that reports no cells or no bits per cell makes the
\* harness end in a fatal error: no cycle, no injection, no report.
C14_DegenerateConfigIsFatal ==
    (Invoked /\ (mem_depth = 0 \/ mem_bits = 0)) =>
        /\ ~InCycle
        /\ pc # "clk_low"
        /\ errors_injected = 0
        /\ report = <<>>
        /\ exit_status # 0

\* C15: inside a cycle the phases run inject, handshakes, memory intent,
\* clock; injection, sampling and shadow clear of cycle k all happen after
\* exactly 2k + 1 steps of the circuit, with the clock low, so before the
\* rising edge of cycle k.
C15_PhaseOrder ==
    /\ [](InCycle => (steps = 2 * clk_cycle + 1 /\ ~p_clk))
    /\ [][/\ pc = "flip" => pc' \in {"flip", "handshake"}
          /\ pc = "handshake" => pc' = "intent"
          /\ pc = "intent" => pc' = "clk"
          /\ pc = "clk" => (pc' = "clk_low" /\ p_clk' /\ steps' = steps + 1)
          /\ errors_injected' # errors_injected => pc = "flip"
          /\ <<req_valid_cycles, req_fire_cycles, rsp_ready_cycles,
               rsp_fire_cycles>>' # <<req_valid_cycles, req_fire_cycles,
               rsp_ready_cycles, rsp_fire_cycles>> => pc = "handshake"
          /\ read_with_errors' # read_with_errors => pc = "intent"
          /\ (\E c \in Cells : flips_array'[c] # flips_array[c])
                => pc \in {"flip", "intent"}
          /\ (pc \in {"flip", "handshake", "intent"}) => steps' = steps
          /\ (\E c \in Cells : ideal'[c] # ideal[c]) => pc = "clk"]_vars

\* the clock has been raised in the second cycle on a write to a cell that
\* was hit by this cycle's injection: the word is overwritten, its shadow
\* was cleared before the edge
C15_Witness ==
    /\ pc = "clk_low"
    /\ clk_cycle = 1
    /\ sram_clk_en
    /\ sram_write_en
    /\ cleared_pop[sram_addr] >= 1
    /\ errors_injected = 1
    /\ mem[sram_addr] = 2 ^ num_memory_bits - 1

\* C16: one step before the loop, two per cycle (clock high, then low), one
\* after the loop; the clock is low wherever ports are read or faults are
\* injected; a run of N cycles makes 2N + 2 steps, also for N = 0.
C16_ClockProtocol ==
    /\ pc = "start" => steps = 0
    /\ pc = "loop" => (steps = 2 * clk_cycle + 1 /\ ~p_clk)
    /\ InCycle => (steps = 2 * clk_cycle + 1 /\ ~p_clk)
    /\ pc = "clk_low" => (steps = 2 * clk_cycle + 2 /\ p_clk)
    /\ (pc = "report" \/ (pc = "done" /\ Invoked)) =>
            (steps = 2 * total_cycles + 2 /\ ~p_clk)

\* the trailing half-cycle of a run of zero cycles has been made
C16_Witness ==
    /\ pc = "report"
    /\ total_cycles = 0
    /\ steps = 2

\* C17: the buckets sum to the number of cycles observed as reads; only a
\* read step changes a bucket; a read step clears no shadow entry and a
\* write step counts nothing.
C17_HistogramCountsReads ==
    /\ [](SumTo(read_with_errors, num_memory_bits) = read_cycles)
    /\ [][/\ read_with_errors' # read_with_errors => ReadStep
          /\ ReadStep => flips_array' = flips_array
          /\ (\E c \in Cells : ClearStep(c)) =>
                read_with_errors' = read_with_errors]_vars

\* a finished run with one read cycle and one write cycle
C17_Witness ==
    /\ pc = "done"
    /\ clk_cycle = 2
    /\ read_cycles = 1
    /\ \E c \in Cells : cleared_pop[c] >= 0

\* C18: the memory-intent observation changes the shadow only on a write
\* cycle and only at the sampled address, and never the memory; the
\* handshake observation changes neither shadow nor memory.
C18_ObservationFrame ==
    [][/\ pc = "intent" =>
            /\ mem' = mem
            /\ \A c \in Cells :
                flips_array'[c] # flips_array[c] =>
                    /\ sram_clk_en' /\ sram_write_en' /\ sram_addr' = c
                    /\ flips_array'[c] = 0
       /\ pc = "handshake" => (flips_array' = flips_array /\ mem' = mem)]_vars

\* a write was observed on a dirty cell while every other cell is dirty too
C18_Witness ==
    /\ pc = "clk"
    /\ sram_clk_en
    /\ sram_write_en
    /\ cleared_pop[sram_addr] >= 1
    /\ \A d \in Cells \ {sram_addr} : flips_array[d] # 0

\* C19: no access leaves the arrays: every shadow entry stays below
\* 2^num_memory_bits, the bucket a read uses lies in 0 .. num_memory_bits,
\* and every injected (cell, bit) lies inside the memory.
C19_IndicesInRange ==
    /\ pc # "crashed"
    /\ DOMAIN flips_array = Cells
    /\ DOMAIN read_with_errors = Buckets
    /\ \A c \in Cells : flips_array[c] \in 0 .. (2 ^ num_memory_bits - 1)
    /\ \A c \in Cells : Popcount(flips_array[c]) \in Buckets
    /\ snap.valid => (snap.cell \in Cells /\ snap.bit \in Bits)

\* the last cell has every bit flipped and its read was counted in the
\* last bucket
C19_Witness ==
    /\ pc = "clk"
    /\ sram_clk_en
    /\ ~sram_write_en
    /\ sram_addr = num_memory_cells - 1
    /\ flips_array[sram_addr] = 2 ^ num_memory_bits - 1
    /\ read_with_errors[num_memory_bits] = 1

\* C20: the report reads buckets 0 .. 4, and each of them is a bucket of
\* the histogram.
C20_ReportedBucketsValid ==
    report # <<>> =>
        \A i \in 0 .. 4 :
            /\ i \in DOMAIN read_with_errors
            /\ report[6][i] = read_with_errors[i]
====
